---- MODULE Spec2Model ----
(***************************************************************************)
(* Book Collection API (lecture_5/book_api): the books table and the       *)
(* endpoints of main.py, with the request validation of schemas.py.        *)
(* Spec follows the create/get/update/delete routes, SpecClock the same    *)
(* writes with the database clock advancing, SpecQuery the list, search    *)
(* and stats routes over the tables the writes build, SpecPattern creates  *)
(* whose text holds % or _, SpecRace two create requests in flight at the  *)
(* same time.  SpecGrades is the menu loop of the Student Grade Analyzer   *)
(* (lecture_3/main.py) over its list of students.                          *)
(*                                                                         *)
(* A string is a sequence of one-character strings.  An optional value is  *)
(* None (<<>>) or Some(v) (<<v>>).  A request field is a record            *)
(* [set, val]: set says whether the JSON body carried the field, val is    *)
(* None for an absent field or an explicit null.                           *)
(***************************************************************************)
EXTENDS Integers, Sequences, FiniteSets, TLC

VARIABLES books, now, last, calls, students, printed

vars == <<books, now, last, calls, students, printed>>

(* ---------------------------- bounds ----------------------------------- *)

\* The largest row id the model lets the table assign.
MaxId == 2

\* The last tick of the database clock the model follows.
MaxNow == 1

\* The longest list of students and the longest list of grades of a student
\* the model follows.
MaxStudents == 2

MaxGrades == 2

(* ------------------------- optional values ----------------------------- *)

None == <<>>

Some(v) == <<v>>

Unset == [set |-> FALSE, val |-> None]

Null == [set |-> TRUE, val |-> None]

Given(v) == [set |-> TRUE, val |-> Some(v)]

(* ------------------------------ strings -------------------------------- *)

Rep(c, n) == [i \in 1..n |-> c]

\* str.lower() / SQL lower() on the letters of the model's alphabet.
LowerChar(c) ==
    CASE c = "A" -> "a" [] c = "B" -> "b" [] c = "C" -> "c" [] c = "D" -> "d"
      [] c = "E" -> "e" [] c = "S" -> "s" [] c = "X" -> "x" [] c = "Y" -> "y"
      [] OTHER -> c

Lower(s) == [i \in 1..Len(s) |-> LowerChar(s[i])]

IsSpace(c) == c = " "

RECURSIVE LStrip(_)
LStrip(s) == IF s # <<>> /\ IsSpace(Head(s)) THEN LStrip(Tail(s)) ELSE s

RECURSIVE RStrip(_)
RStrip(s) ==
    IF s # <<>> /\ IsSpace(s[Len(s)]) THEN RStrip(SubSeq(s, 1, Len(s) - 1)) ELSE s

\* str.strip()
Strip(s) == RStrip(LStrip(s))

\* SQL LIKE: % matches any run of characters, _ any one character.
RECURSIVE Like(_, _)
Like(s, p) ==
    IF p = <<>> THEN s = <<>>
    ELSE IF Head(p) = "%" THEN Like(s, Tail(p)) \/ (s # <<>> /\ Like(Tail(s), p))
    ELSE IF s = <<>> THEN FALSE
    ELSE (Head(p) = "_" \/ Head(p) = Head(s)) /\ Like(Tail(s), Tail(p))

\* A comparison that keeps letter case (LIKE without the lower() calls).
ILike_CaseSensitive(s, p) == Like(s, p)

\* Column.ilike(pattern): lower(column) LIKE lower(pattern)
ILike(s, p) == Like(Lower(s), Lower(p))

(* ----------------------------- schemas.py ------------------------------ *)

TitleMaxLength == 200

AuthorMaxLength == 100

YearMin == 1000

\* datetime.now().year, taken once when the schema classes are built.
CurrentYear == 2026

\* Field(min_length=1, max_length=n) on a str: checked on the value as sent.
StrConstraint(v, n) == Len(v) >= 1 /\ Len(v) <= n

\* Field(ge=1000, le=current year) on an int.
YearConstraint(y) == y >= YearMin /\ y <= CurrentYear

\* BookBase.strip_whitespace, run after the field's own constraints.
strip_whitespace(v) == IF v # <<>> THEN Strip(v) ELSE v

\* BookCreate accepts the body: title and author required, year optional.
BookCreateValid(req) ==
    /\ req.title.val # None /\ StrConstraint(req.title.val[1], TitleMaxLength)
    /\ req.author.val # None /\ StrConstraint(req.author.val[1], AuthorMaxLength)
    /\ (req.year.val = None \/ YearConstraint(req.year.val[1]))

\* book.model_dump() of an accepted BookCreate.
BookCreateDump(req) ==
    [title  |-> strip_whitespace(req.title.val[1]),
     author |-> strip_whitespace(req.author.val[1]),
     year   |-> req.year.val]

\* BookUpdate accepts the body: every field optional, no validator.
BookUpdateValid(req) ==
    /\ (req.title.val = None \/ StrConstraint(req.title.val[1], TitleMaxLength))
    /\ (req.author.val = None \/ StrConstraint(req.author.val[1], AuthorMaxLength))
    /\ (req.year.val = None \/ YearConstraint(req.year.val[1]))

Fields == {"title", "author", "year"}

\* book_update.model_dump(exclude_unset=True): the fields the body carried.
BookUpdateDump(req) == [f \in {g \in Fields : req[g].set} |-> req[f].val]

(* ------------------------------ models.py ------------------------------ *)

Ids(bs) == {b.id : b \in bs}

Max(S) == CHOOSE m \in S : \A n \in S : n <= m

\* INTEGER PRIMARY KEY of SQLite: one more than the largest id in the table.
NextRowId(bs) == IF bs = {} THEN 1 ELSE Max(Ids(bs)) + 1

\* A row as INSERT leaves it: server_default sets created_at, updated_at is NULL.
NewBook(bs, data, t) ==
    [id |-> NextRowId(bs), title |-> data.title, author |-> data.author,
     year |-> data.year, created_at |-> Some(t), updated_at |-> None]

(* --------------------------- HTTP statuses ----------------------------- *)

HTTP_200_OK == 200

HTTP_201_CREATED == 201

HTTP_204_NO_CONTENT == 204

HTTP_404_NOT_FOUND == 404

HTTP_409_CONFLICT == 409

HTTP_422_UNPROCESSABLE_ENTITY == 422

NoReq == [title |-> Unset, author |-> Unset, year |-> Unset]

Reply(op, id, req, status, out) ==
    [op |-> op, id |-> id, req |-> req, status |-> status, out |-> out]

(* ------------------------------- main.py ------------------------------- *)

\* A lookup whose filter is an inequality: first() then finds some row.
get_book_or_404_AtMost(bs, book_id) == {b \in bs : b.id <= book_id}

\* db.query(Book).filter(Book.id == book_id).first(), as a set of 0 or 1 rows.
get_book_or_404(bs, book_id) == {b \in bs : b.id = book_id}

\* The duplicate query of create_book.
Existing(bs, data) ==
    {b \in bs : ILike(b.title, data.title) /\ ILike(b.author, data.author)}

\* POST /books/
create_book(req) ==
    /\ UNCHANGED now
    /\ IF ~BookCreateValid(req)
       THEN /\ last' = Reply("create", 0, req, HTTP_422_UNPROCESSABLE_ENTITY, None)
            /\ UNCHANGED books
       ELSE LET data == BookCreateDump(req) IN
            IF Existing(books, data) # {}
            THEN /\ last' = Reply("create", 0, req, HTTP_409_CONFLICT, None)
                 /\ UNCHANGED books
            ELSE LET db_book == NewBook(books, data, now) IN
                 /\ db_book.id <= MaxId   \* the bound on the table's size
                 /\ books' = books \cup {db_book}
                 /\ last' = Reply("create", db_book.id, req, HTTP_201_CREATED, Some(db_book))

\* GET /books/{book_id}
read_book(book_id) ==
    /\ UNCHANGED <<books, now>>
    /\ LET found == get_book_or_404(books, book_id) IN
       IF found = {}
       THEN last' = Reply("get", book_id, NoReq, HTTP_404_NOT_FOUND, None)
       ELSE last' = Reply("get", book_id, NoReq, HTTP_200_OK,
                          Some(CHOOSE b \in found : TRUE))

\* A delete whose WHERE clause is an inequality on the id.
delete_book_AtMost(book_id) ==
    /\ UNCHANGED now
    /\ LET found == get_book_or_404(books, book_id) IN
       IF found = {}
       THEN /\ last' = Reply("delete", book_id, NoReq, HTTP_404_NOT_FOUND, None)
            /\ UNCHANGED books
       ELSE /\ books' = {b \in books : b.id > book_id}
            /\ last' = Reply("delete", book_id, NoReq, HTTP_204_NO_CONTENT, None)

\* DELETE /books/{book_id}
delete_book(book_id) ==
    /\ UNCHANGED now
    /\ LET found == get_book_or_404(books, book_id) IN
       IF found = {}
       THEN /\ last' = Reply("delete", book_id, NoReq, HTTP_404_NOT_FOUND, None)
            /\ UNCHANGED books
       ELSE /\ books' = books \ found
            /\ last' = Reply("delete", book_id, NoReq, HTTP_204_NO_CONTENT, None)

\* A loop that also assigns a dumped None to the nullable year column.
ApplyUpdate_SetNull(book, update_data) ==
    [f \in DOMAIN book |->
        IF f \in DOMAIN update_data /\ (f = "year" \/ update_data[f] # None)
        THEN (IF f = "year" THEN update_data[f] ELSE update_data[f][1])
        ELSE book[f]]

\* The loop of update_book: setattr for every dumped field that is not None
\* (the nullable year column holds an optional value, title and author a string).
ApplyUpdate(book, update_data) ==
    [f \in DOMAIN book |->
        IF f \in DOMAIN update_data /\ update_data[f] # None
        THEN (IF f = "year" THEN update_data[f] ELSE update_data[f][1])
        ELSE book[f]]

\* A flush that stamps updated_at on every commit, changed or not.
Flush_Always(book, changed, t) == [changed EXCEPT !.updated_at = Some(t)]

\* db.commit(): an UPDATE is emitted only for a row with a changed column,
\* and onupdate=func.now() sets updated_at in that UPDATE.
Flush(book, changed, t) ==
    IF changed = book THEN book ELSE [changed EXCEPT !.updated_at = Some(t)]

\* An update that runs the duplicate query of create_book on the new values.
update_book_Checked(book_id, req) ==
    /\ UNCHANGED now
    /\ IF ~BookUpdateValid(req)
       THEN /\ last' = Reply("update", book_id, req, HTTP_422_UNPROCESSABLE_ENTITY, None)
            /\ UNCHANGED books
       ELSE LET found == get_book_or_404(books, book_id) IN
            IF found = {}
            THEN /\ last' = Reply("update", book_id, req, HTTP_404_NOT_FOUND, None)
                 /\ UNCHANGED books
            ELSE LET book == CHOOSE b \in found : TRUE
                     changed == ApplyUpdate(book, BookUpdateDump(req))
                 IN IF Existing(books \ {book}, changed) # {}
                    THEN /\ last' = Reply("update", book_id, req, HTTP_409_CONFLICT, None)
                         /\ UNCHANGED books
                    ELSE /\ books' = (books \ {book}) \cup {Flush(book, changed, now)}
                         /\ last' = Reply("update", book_id, req, HTTP_200_OK,
                                          Some(Flush(book, changed, now)))

\* PUT /books/{book_id}
update_book(book_id, req) ==
    /\ UNCHANGED now
    /\ IF ~BookUpdateValid(req)
       THEN /\ last' = Reply("update", book_id, req, HTTP_422_UNPROCESSABLE_ENTITY, None)
            /\ UNCHANGED books
       ELSE LET found == get_book_or_404(books, book_id) IN
            IF found = {}
            THEN /\ last' = Reply("update", book_id, req, HTTP_404_NOT_FOUND, None)
                 /\ UNCHANGED books
            ELSE LET book == CHOOSE b \in found : TRUE
                     saved == Flush(book, ApplyUpdate(book, BookUpdateDump(req)), now)
                 IN /\ books' = (books \ {book}) \cup {saved}
                    /\ last' = Reply("update", book_id, req, HTTP_200_OK, Some(saved))

\* The database clock (func.now()) moves on between requests.
Tick ==
    /\ now < MaxNow
    /\ now' = now + 1
    /\ UNCHANGED <<books, last>>

(* ------------------------------ requests ------------------------------- *)

Req(t, a, y) == [title |-> t, author |-> a, year |-> y]

\* Bodies BookCreate accepts (a title of one space passes min_length=1).
CreateAccepted ==
    [title  : {Given(<<" ">>), Given(<<"a">>), Given(<<"A">>)},
     author : {Given(<<"x">>), Given(<<"X">>)},
     year   : {Unset}]
    \cup {Req(Given(<<"a">>), Given(<<"x">>), Given(CurrentYear))}

\* Bodies BookCreate rejects, one broken field each.
CreateRejected ==
    {Req(Unset, Given(<<"x">>), Unset),
     Req(Given(<<>>), Given(<<"x">>), Unset),
     Req(Given(Rep("a", TitleMaxLength + 1)), Given(<<"x">>), Unset),
     Req(Given(<<"a">>), Null, Unset),
     Req(Given(<<"a">>), Given(<<>>), Unset),
     Req(Given(<<"a">>), Given(Rep("x", AuthorMaxLength + 1)), Unset),
     Req(Given(<<"a">>), Given(<<"x">>), Given(YearMin - 1)),
     Req(Given(<<"a">>), Given(<<"x">>), Given(CurrentYear + 1))}

CreateRequests == CreateAccepted \cup CreateRejected

\* Bodies BookUpdate accepts (the clock specification below updates years).
UpdateAccepted ==
    [title  : {Unset, Given(<<" ">>), Given(<<"A">>)},
     author : {Unset, Given(<<"X">>)},
     year   : {Unset}]

\* Bodies BookUpdate rejects.
UpdateRejected ==
    {Req(Given(<<>>), Unset, Unset),
     Req(Unset, Given(Rep("x", AuthorMaxLength + 1)), Unset),
     Req(Unset, Unset, Given(CurrentYear + 1))}

UpdateRequests == UpdateAccepted \cup UpdateRejected

\* The ids requests name: every id the table can hold and one it never holds.
BookIds == 1..(MaxId + 1)

\* The requests in flight in the specification of concurrent creates.
Callers == {"r1", "r2"}

\* A caller with no request in flight.
Idle == [pc |-> "idle", req |-> NoReq, status |-> 0, out |-> None]

Init ==
    /\ books = {}
    /\ now = 0
    /\ last = Reply("none", 0, NoReq, 0, None)
    /\ calls = [c \in Callers |-> Idle]
    /\ students = <<>>
    /\ printed = <<[text |-> "Welcome to Student Grade Analyzer!", name |-> <<>>]>>

\* Requests served one after the other leave the callers and the grade
\* analyzer alone.
OneAtATime == UNCHANGED <<calls, students, printed>>

Next ==
    \/ \E req \in CreateRequests : create_book(req) /\ OneAtATime
    \/ \E id \in BookIds : read_book(id) /\ OneAtATime
    \/ \E id \in BookIds : delete_book(id) /\ OneAtATime
    \/ \E id \in BookIds, req \in UpdateRequests : update_book(id, req) /\ OneAtATime

Spec == Init /\ [][Next]_vars

(* ------------------- the same requests, with the clock ----------------- *)

ClockCreates ==
    {Req(Given(<<"a">>), Given(<<"x">>), Unset),
     Req(Given(<<" ">>), Given(<<"x">>), Given(YearMin))}

ClockUpdates ==
    [title  : {Unset, Null, Given(<<"A">>)},
     author : {Unset},
     year   : {Unset, Null, Given(CurrentYear)}]

NextClock ==
    \/ \E req \in ClockCreates : create_book(req) /\ OneAtATime
    \/ \E id \in BookIds, req \in ClockUpdates : update_book(id, req) /\ OneAtATime
    \/ Tick /\ OneAtATime

SpecClock == Init /\ [][NextClock]_vars

(* ------------------- create requests in flight together --------------- *)

\* Every caller's request has its own session (get_db); the table is what
\* the sessions share, and each query and each commit is one step on it.
Served == UNCHANGED <<now, last, students, printed>>

\* A POST /books/ arrives: the body is validated before the route runs.
create_book_call(c, req) ==
    /\ calls[c].pc = "idle"
    /\ calls' = [calls EXCEPT ![c] =
                    IF BookCreateValid(req)
                    THEN [pc |-> "query", req |-> req, status |-> 0, out |-> None]
                    ELSE [pc |-> "done", req |-> req,
                          status |-> HTTP_422_UNPROCESSABLE_ENTITY, out |-> None]]
    /\ UNCHANGED books
    /\ Served

\* existing = db.query(...).first(); if existing: raise DuplicateBookException
create_book_query(c) ==
    /\ calls[c].pc = "query"
    /\ calls' = [calls EXCEPT ![c] =
                    IF Existing(books, BookCreateDump(calls[c].req)) # {}
                    THEN [@ EXCEPT !.pc = "done", !.status = HTTP_409_CONFLICT]
                    ELSE [@ EXCEPT !.pc = "commit"]]
    /\ UNCHANGED books
    /\ Served

\* A commit that fails on a unique index over (title, author).
create_book_commit_Unique(c) ==
    /\ calls[c].pc = "commit"
    /\ IF Existing(books, BookCreateDump(calls[c].req)) # {}
       THEN /\ calls' = [calls EXCEPT ![c] =
                            [@ EXCEPT !.pc = "done", !.status = HTTP_409_CONFLICT]]
            /\ UNCHANGED books
       ELSE LET db_book == NewBook(books, BookCreateDump(calls[c].req), now) IN
            /\ db_book.id <= MaxId
            /\ books' = books \cup {db_book}
            /\ calls' = [calls EXCEPT ![c] =
                            [@ EXCEPT !.pc = "done", !.status = HTTP_201_CREATED,
                                      !.out = Some(db_book)]]
    /\ Served

\* db.add(db_book); db.commit(); db.refresh(db_book); return db_book
create_book_commit(c) ==
    /\ calls[c].pc = "commit"
    /\ LET db_book == NewBook(books, BookCreateDump(calls[c].req), now) IN
       /\ db_book.id <= MaxId   \* the bound on the table's size
       /\ books' = books \cup {db_book}
       /\ calls' = [calls EXCEPT ![c] =
                       [@ EXCEPT !.pc = "done", !.status = HTTP_201_CREATED,
                                 !.out = Some(db_book)]]
    /\ Served

\* The response is sent and the caller may send its next request.
create_book_return(c) ==
    /\ calls[c].pc = "done"
    /\ calls' = [calls EXCEPT ![c] = Idle]
    /\ UNCHANGED books
    /\ Served

RaceCreates ==
    {Req(Given(<<"a">>), Given(<<"x">>), Unset),
     Req(Given(<<"A">>), Given(<<"x">>), Unset),
     Req(Given(<<"b">>), Given(<<"x">>), Unset),
     Req(Given(<<>>), Given(<<"x">>), Unset)}

NextRace ==
    \/ \E c \in Callers, req \in RaceCreates : create_book_call(c, req)
    \/ \E c \in Callers : create_book_query(c)
    \/ \E c \in Callers : create_book_commit(c)
    \/ \E c \in Callers : create_book_return(c)

SpecRace == Init /\ [][NextRace]_vars

(* ------------- creates whose text holds LIKE's special characters ------ *)

PatternCreates ==
    [title  : {Given(<<"a">>), Given(<<"A">>), Given(<<"a", "b">>),
               Given(<<"_">>), Given(<<"%">>)},
     author : {Given(<<"x">>), Given(<<"%">>)},
     year   : {Unset}]

NextPattern ==
    \/ \E req \in PatternCreates : create_book(req) /\ OneAtATime
    \/ \E id \in BookIds : delete_book(id) /\ OneAtATime

SpecPattern == Init /\ [][NextPattern]_vars

(* ------------------------ list, search, stats -------------------------- *)

\* The code point of a character (the BINARY collation compares by these).
Code(c) ==
    CASE c = " " -> 32 [] c = "%" -> 37
      [] c = "A" -> 65 [] c = "B" -> 66 [] c = "X" -> 88 [] c = "Y" -> 89
      [] c = "_" -> 95
      [] c = "a" -> 97 [] c = "b" -> 98 [] c = "x" -> 120 [] c = "y" -> 121

\* s sorts before t in a TEXT column.
RECURSIVE StrLess(_, _)
StrLess(s, t) ==
    IF t = <<>> THEN FALSE
    ELSE IF s = <<>> THEN TRUE
    ELSE IF Head(s) = Head(t) THEN StrLess(Tail(s), Tail(t))
    ELSE Code(Head(s)) < Code(Head(t))

\* x sorts before y in a nullable INTEGER column: NULL sorts first.
OptLess(x, y) == IF x = None THEN y # None ELSE y # None /\ x[1] < y[1]

\* Row a sorts before row b by column f.
ColLess(f, a, b) ==
    IF f = "id" THEN a.id < b.id
    ELSE IF f = "year" THEN OptLess(a.year, b.year)
    ELSE StrLess(a[f], b[f])

\* query.order_by(field) / order_by(field.desc()): the orders the database may
\* return the rows in; rows equal in the field come in either order.
OrderBy(rows, f, desc) ==
    {o \in [1..Cardinality(rows) -> rows] :
        /\ \A i \in DOMAIN o : \A j \in DOMAIN o : (i # j) => (o[i] # o[j])
        /\ \A i \in 1..(Len(o) - 1) :
              IF desc THEN ~ColLess(f, o[i], o[i + 1])
              ELSE ~ColLess(f, o[i + 1], o[i])}

\* query.offset(n)
RECURSIVE Offset(_, _)
Offset(rows, n) == IF n = 0 \/ rows = <<>> THEN rows ELSE Offset(Tail(rows), n - 1)

\* query.limit(n)
RECURSIVE Limit(_, _)
Limit(rows, n) ==
    IF n = 0 \/ rows = <<>> THEN <<>> ELSE <<Head(rows)>> \o Limit(Tail(rows), n - 1)

\* f"%{term}%"
Wrap(term) == <<"%">> \o term \o <<"%">>

\* apply_filters: a filter applies when its term is truthy.
apply_filters(rows, title, author, year) ==
    LET q1 == IF title # None /\ title[1] # <<>>
              THEN {b \in rows : ILike(b.title, Wrap(title[1]))} ELSE rows
        q2 == IF author # None /\ author[1] # <<>>
              THEN {b \in q1 : ILike(b.author, Wrap(author[1]))} ELSE q1
    IN IF year # None /\ year[1] # 0 THEN {b \in q2 : b.year = year} ELSE q2

valid_sort_fields == {"id", "title", "author", "year"}

\* A fallback to the title column.
SortField_Title(sort_by) == IF sort_by \notin valid_sort_fields THEN "title" ELSE sort_by

\* if sort_by not in valid_sort_fields: sort_by = "id"
SortField(sort_by) == IF sort_by \notin valid_sort_fields THEN "id" ELSE sort_by

desc == <<"d", "e", "s", "c">>

\* A comparison of sort_order with "desc" that minds the letter case.
IsDesc_CaseSensitive(sort_order) == sort_order = desc

\* sort_order.lower() == "desc"
IsDesc(sort_order) == Lower(sort_order) = desc

LimitMax == 1000

SearchYearMin == 1000

SearchYearMax == 2100

\* Query(0, ge=0) and Query(100, ge=1, le=1000)
PageParamsValid(q) == q.skip >= 0 /\ q.limit >= 1 /\ q.limit <= LimitMax

\* Query(None, min_length=1) and Query(None, ge=1000, le=2100)
FilterParamsValid(q) ==
    /\ (q.title = None \/ Len(q.title[1]) >= 1)
    /\ (q.author = None \/ Len(q.author[1]) >= 1)
    /\ (q.year = None \/ (q.year[1] >= SearchYearMin /\ q.year[1] <= SearchYearMax))

\* A page cut with the limit applied before the offset.
Page_LimitFirst(ordered, q) ==
    [ordered |-> ordered, rows |-> Offset(Limit(ordered, q.limit), q.skip)]

\* The response body of a list or search: the page, and the ordered result
\* it was cut from.
Page(ordered, q) ==
    [ordered |-> ordered, rows |-> Limit(Offset(ordered, q.skip), q.limit)]

\* GET /books/
read_books(q) ==
    /\ UNCHANGED <<books, now>>
    /\ IF ~PageParamsValid(q)
       THEN last' = Reply("list", 0, q, HTTP_422_UNPROCESSABLE_ENTITY, None)
       ELSE \E ordered \in OrderBy(books, SortField(q.sort_by), IsDesc(q.sort_order)) :
                last' = Reply("list", 0, q, HTTP_200_OK, Some(Page(ordered, q)))

\* GET /books/search/
search_books(q) ==
    /\ UNCHANGED <<books, now>>
    /\ IF ~(PageParamsValid(q) /\ FilterParamsValid(q))
       THEN last' = Reply("search", 0, q, HTTP_422_UNPROCESSABLE_ENTITY, None)
       ELSE \E ordered \in OrderBy(apply_filters(books, q.title, q.author, q.year),
                                   SortField(q.sort_by), IsDesc(q.sort_order)) :
                last' = Reply("search", 0, q, HTTP_200_OK, Some(Page(ordered, q)))

\* A grouping that records a year once and never counts further rows.
RECURSIVE GroupCount_Once(_, _)
GroupCount_Once(rows, acc) ==
    IF rows = {} THEN acc
    ELSE LET b == CHOOSE x \in rows : TRUE
             y == b.year[1]
         IN GroupCount_Once(rows \ {b},
                            IF y \in DOMAIN acc THEN acc ELSE acc @@ (y :> 1))

\* The rows of the GROUP BY year query: a count for every year among the rows.
RECURSIVE GroupCount(_, _)
GroupCount(rows, acc) ==
    IF rows = {} THEN acc
    ELSE LET b == CHOOSE x \in rows : TRUE
             y == b.year[1]
         IN GroupCount(rows \ {b},
                       IF y \in DOMAIN acc THEN [acc EXCEPT ![y] = @ + 1]
                       ELSE acc @@ (y :> 1))

Min(S) == CHOOSE m \in S : \A n \in S : m <= n

\* sorted(keys)
RECURSIVE sorted(_)
sorted(S) == IF S = {} THEN <<>> ELSE <<Min(S)>> \o sorted(S \ {Min(S)})

\* GET /stats/
get_stats ==
    /\ UNCHANGED <<books, now>>
    /\ LET total_books == Cardinality(books)
           books_by_year == GroupCount({b \in books : b.year # None}, <<>>)
       IN last' = Reply("stats", 0, NoReq, HTTP_200_OK,
                        Some([total_books   |-> total_books,
                              books_by_year |-> books_by_year,
                              years_covered |-> sorted(DOMAIN books_by_year)]))

(* ------------------------- queries over a store ------------------------ *)

Query(t, a, y, skip, limit, sort_by, sort_order) ==
    [title |-> t, author |-> a, year |-> y, skip |-> skip, limit |-> limit,
     sort_by |-> sort_by, sort_order |-> sort_order]

asc == <<"a", "s", "c">>

SortOrders == {asc, desc, <<"D", "E", "S", "C">>, <<"a">>}

SortBys == valid_sort_fields \cup {"x"}

QueryCreates ==
    {Req(Given(<<"a", "b">>), Given(<<"x">>), Given(CurrentYear)),
     Req(Given(<<"B">>), Given(<<"y">>), Given(YearMin)),
     Req(Given(<<"A">>), Given(<<"x">>), Unset),
     Req(Given(<<"b">>), Given(<<"y">>), Given(CurrentYear))}

QueryUpdates == {Req(Unset, Unset, Given(YearMin))}

\* Accepted list calls: every page of two sort fields, and every sort field
\* and order over the whole table.
ListAccepted ==
    {Query(None, None, None, skip, limit, sort_by, sort_order) :
        skip \in 0..MaxId, limit \in {1, 2, LimitMax},
        sort_by \in {"title", "x"}, sort_order \in {asc, <<"D", "E", "S", "C">>}}
    \cup
    {Query(None, None, None, 0, LimitMax, sort_by, sort_order) :
        sort_by \in SortBys, sort_order \in SortOrders}

ListRejected ==
    {Query(None, None, None, -1, 1, "id", asc),
     Query(None, None, None, 0, 0, "id", asc),
     Query(None, None, None, 0, LimitMax + 1, "x", asc)}

\* Accepted search calls: every filter combination with every page, and one
\* filter with every sort field and order.
SearchAccepted ==
    {Query(t, a, y, skip, limit, "year", asc) :
        t \in {None, Some(<<"a">>), Some(<<"_">>)},
        a \in {None, Some(<<"X">>)},
        y \in {None, Some(CurrentYear)},
        skip \in {0, 1}, limit \in {1, 2}}
    \cup
    {Query(Some(<<"b">>), None, None, 0, 2, sort_by, sort_order) :
        sort_by \in SortBys, sort_order \in {asc, desc}}

SearchRejected ==
    {Query(Some(<<>>), None, None, 0, 1, "id", asc),
     Query(None, Some(<<>>), None, 0, 1, "id", asc),
     Query(None, None, Some(SearchYearMin - 1), 0, 1, "id", asc),
     Query(None, None, Some(SearchYearMax + 1), 0, 1, "id", asc),
     Query(Some(<<"a">>), None, None, -1, 1, "x", asc)}

NextQuery ==
    \/ \E req \in QueryCreates : create_book(req) /\ OneAtATime
    \/ \E id \in BookIds, req \in QueryUpdates : update_book(id, req) /\ OneAtATime
    \/ \E id \in BookIds : delete_book(id) /\ OneAtATime
    \/ \E q \in ListAccepted \cup ListRejected : read_books(q) /\ OneAtATime
    \/ \E q \in SearchAccepted \cup SearchRejected : search_books(q) /\ OneAtATime
    \/ get_stats /\ OneAtATime

SpecQuery == Init /\ [][NextQuery]_vars

(* ------------- Student Grade Analyzer (lecture_3/main.py) -------------- *)

\* What the keyboard delivers at a prompt: a typed line, or an interrupt
\* (KeyboardInterrupt; EOFError differs in the message printed only). keys
\* are the lines typed during one pass of the menu loop; when they are used
\* up the input has ended.
Line(s) == Some(s)

Interrupt == None

NextKey(keys) == IF keys = <<>> THEN Interrupt ELSE Head(keys)

Rest(keys) == IF keys = <<>> THEN <<>> ELSE Tail(keys)

\* A printed message: its fixed text and the student name put into it (the
\* menu, the separators and the formatted numbers are left out).
Msg(text) == [text |-> text, name |-> <<>>]

MsgFor(text, name) == [text |-> text, name |-> name]

\* input(prompt).strip(), None after an interrupt
safe_input(key) ==
    IF key = Interrupt THEN [val |-> None, out |-> <<Msg("Operation cancelled")>>]
    ELSE [val |-> Some(Strip(key[1])), out |-> <<>>]

Digits == <<"0", "1", "2", "3", "4", "5", "6", "7", "8", "9">>

IsDigit(c) == \E d \in DOMAIN Digits : Digits[d] = c

DigitValue(c) == (CHOOSE d \in DOMAIN Digits : Digits[d] = c) - 1

\* The digits of a literal, after its sign.
Unsigned(s) == IF s # <<>> /\ Head(s) \in {"+", "-"} THEN Tail(s) ELSE s

\* int(s) succeeds: an optional sign and at least one digit.
IsIntLiteral(s) == Unsigned(s) # <<>> /\ \A i \in DOMAIN Unsigned(s) : IsDigit(Unsigned(s)[i])

RECURSIVE DecimalValue(_)
DecimalValue(ds) ==
    IF ds = <<>> THEN 0
    ELSE DecimalValue(SubSeq(ds, 1, Len(ds) - 1)) * 10 + DigitValue(ds[Len(ds)])

\* int(s) for a literal
int(s) == IF Head(s) = "-" THEN 0 - DecimalValue(Unsigned(s)) ELSE DecimalValue(Unsigned(s))

\* A result with a message, or messages, put before those it printed.
After(msg, r) == [r EXCEPT !.out = <<msg>> \o @]

After_All(msgs, r) == [r EXCEPT !.out = msgs \o @]

\* get_valid_int: asks until an integer within [min_val, max_val] is typed
\* or the input is interrupted.
RECURSIVE get_valid_int(_, _, _)
get_valid_int(keys, min_val, max_val) ==
    LET user_input == safe_input(NextKey(keys)) IN
    IF user_input.val = None
    THEN [val |-> None, rest |-> Rest(keys), out |-> user_input.out]
    ELSE IF user_input.val[1] = <<>>
    THEN After(Msg("Error: Input cannot be empty"),
               get_valid_int(Rest(keys), min_val, max_val))
    ELSE IF ~IsIntLiteral(user_input.val[1])
    THEN After(Msg("Error: Please enter a valid number"),
               get_valid_int(Rest(keys), min_val, max_val))
    ELSE IF min_val # None /\ int(user_input.val[1]) < min_val[1]
    THEN After(Msg("Error: Value must be at least"),
               get_valid_int(Rest(keys), min_val, max_val))
    ELSE IF max_val # None /\ int(user_input.val[1]) > max_val[1]
    THEN After(Msg("Error: Value must be at most"),
               get_valid_int(Rest(keys), min_val, max_val))
    ELSE [val |-> Some(int(user_input.val[1])), rest |-> Rest(keys), out |-> <<>>]

MenuFirst == 1

MenuLast == 5

get_menu_choice(keys) == get_valid_int(keys, Some(MenuFirst), Some(MenuLast))

\* A lookup that minds the letter case.
find_student_by_name_Exact(sts, name) ==
    LET hits == {i \in DOMAIN sts : sts[i].name = name}
    IN IF hits = {} THEN 0 ELSE Min(hits)

\* find_student_by_name: the position of the first student whose lowered
\* name equals the lowered name, 0 for None.
find_student_by_name(sts, name) ==
    LET hits == {i \in DOMAIN sts : Lower(sts[i].name) = Lower(name)}
    IN IF hits = {} THEN 0 ELSE Min(hits)

\* get_student_name_for_adding: asks until a name is typed that is not empty
\* and that no student has, or the input is interrupted.
RECURSIVE get_student_name_for_adding(_, _)
get_student_name_for_adding(sts, keys) ==
    LET name == safe_input(NextKey(keys)) IN
    IF name.val = None
    THEN [val |-> None, rest |-> Rest(keys), out |-> name.out]
    ELSE IF name.val[1] = <<>>
    THEN After(Msg("Error: Name cannot be empty"),
               get_student_name_for_adding(sts, Rest(keys)))
    ELSE IF find_student_by_name(sts, name.val[1]) # 0
    THEN After(Msg("Student with this name already exists"),
               get_student_name_for_adding(sts, Rest(keys)))
    ELSE [val |-> name.val, rest |-> Rest(keys), out |-> <<>>]

\* get_existing_student: one question; val is the student's position.
get_existing_student(sts, keys) ==
    LET name == safe_input(NextKey(keys)) IN
    IF name.val = None
    THEN [val |-> None, rest |-> Rest(keys), out |-> name.out]
    ELSE IF name.val[1] = <<>>
    THEN [val |-> None, rest |-> Rest(keys), out |-> <<Msg("Error: Name cannot be empty")>>]
    ELSE IF find_student_by_name(sts, name.val[1]) = 0
    THEN [val |-> None, rest |-> Rest(keys), out |-> <<Msg("Student not found")>>]
    ELSE [val |-> Some(find_student_by_name(sts, name.val[1])),
          rest |-> Rest(keys), out |-> <<>>]

GradeMin == 0

GradeMax == 100

done == <<"d", "o", "n", "e">>

\* get_grade_input: asks until a grade within 0..100 is typed; None after
\* "done" or an interrupt.
RECURSIVE get_grade_input(_)
get_grade_input(keys) ==
    LET grade_input == safe_input(NextKey(keys)) IN
    IF grade_input.val = None
    THEN [val |-> None, rest |-> Rest(keys), out |-> grade_input.out]
    ELSE IF grade_input.val[1] = <<>>
    THEN get_grade_input(Rest(keys))
    ELSE IF Lower(grade_input.val[1]) = done
    THEN [val |-> None, rest |-> Rest(keys), out |-> <<>>]
    ELSE IF ~IsIntLiteral(grade_input.val[1])
    THEN After(Msg("Error: Please enter a valid number"), get_grade_input(Rest(keys)))
    ELSE IF int(grade_input.val[1]) < GradeMin \/ int(grade_input.val[1]) > GradeMax
    THEN After(Msg("Error: Grade must be between 0 and 100"), get_grade_input(Rest(keys)))
    ELSE [val |-> Some(int(grade_input.val[1])), rest |-> Rest(keys), out |-> <<>>]

\* add_new_student
add_new_student(sts, keys) ==
    LET name == get_student_name_for_adding(sts, keys) IN
    IF name.val # None /\ name.val[1] # <<>>
    THEN [students |-> Append(sts, [name |-> name.val[1], grades |-> <<>>]),
          out |-> name.out \o <<MsgFor("Student added successfully", name.val[1])>>]
    ELSE [students |-> sts, out |-> name.out]

\* The while loop of add_grades_for_student on the student at position i:
\* added counts the grades appended so far.
RECURSIVE GradeLoop(_, _, _, _)
GradeLoop(sts, i, keys, added) ==
    LET grade == get_grade_input(keys) IN
    IF grade.val = None
    THEN [students |-> sts,
          out |-> grade.out \o
                  <<IF added > 0 THEN MsgFor("Added grades for", sts[i].name)
                    ELSE Msg("No grades were added")>>]
    ELSE LET r == GradeLoop([sts EXCEPT ![i].grades = Append(@, grade.val[1])],
                            i, grade.rest, added + 1)
         IN [r EXCEPT !.out = grade.out \o <<Msg("Grade added successfully")>> \o @]

\* add_grades_for_student
add_grades_for_student(sts, keys) ==
    IF sts = <<>>
    THEN [students |-> sts,
          out |-> <<Msg("No students available. Please add students first")>>]
    ELSE LET student == get_existing_student(sts, keys) IN
         IF student.val = None
         THEN [students |-> sts, out |-> student.out]
         ELSE After(MsgFor("Adding grades for", sts[student.val[1]].name),
                    GradeLoop(sts, student.val[1], student.rest, 0))

RECURSIVE sum(_)
sum(grades) == IF grades = <<>> THEN 0 ELSE Head(grades) + sum(Tail(grades))

\* calculate_average: the quotient sum / len as a fraction, None for no grades.
calculate_average(grades) ==
    IF grades = <<>> THEN None ELSE Some([num |-> sum(grades), den |-> Len(grades)])

\* Average a is less than average b.
AvgLess(a, b) == a.num * b.den < b.num * a.den

\* get_students_with_averages: the positions of the students with grades.
get_students_with_averages(sts) == {i \in DOMAIN sts : sts[i].grades # <<>>}

\* show_report
show_report(sts) ==
    [students |-> sts,
     out |-> <<Msg("STUDENT REPORT")>> \o
             (IF sts = <<>> THEN <<Msg("No students available")>>
              ELSE [i \in DOMAIN sts |->
                       MsgFor(IF calculate_average(sts[i].grades) = None
                              THEN "N/A" ELSE "average", sts[i].name)]
                   \o (IF get_students_with_averages(sts) # {}
                       THEN <<Msg("Overall average")>>
                       ELSE <<Msg("No students have grades")>>))]

\* max(students_with_grades, key=average): the first of the greatest.
TopStudent(sts) ==
    LET with == get_students_with_averages(sts)
        avg(i) == calculate_average(sts[i].grades)[1]
    IN Min({i \in with : \A j \in with : ~AvgLess(avg(i), avg(j))})

\* find_top_student
find_top_student(sts) ==
    [students |-> sts,
     out |-> IF sts = <<>> THEN <<Msg("No students available")>>
             ELSE IF get_students_with_averages(sts) = {}
             THEN <<Msg("No students with grades available")>>
             ELSE <<MsgFor("The student with the highest average is",
                           sts[TopStudent(sts)].name)>>]

ExitChoice == 5

\* The program runs until the loop of main breaks.
Running == printed[Len(printed)].text # "Exiting program."

\* One pass of the loop of main: the menu choice, then the chosen operation
\* on the keys that follow; what it leaves in the list and on the console.
main_pass(sts, keys) ==
    LET choice == get_menu_choice(keys)
        menu_actions(c) ==
            CASE c = 1 -> add_new_student(sts, choice.rest)
              [] c = 2 -> add_grades_for_student(sts, choice.rest)
              [] c = 3 -> show_report(sts)
              [] c = 4 -> find_top_student(sts)
    IN IF choice.val = None THEN [students |-> sts, out |-> choice.out]
       ELSE IF choice.val[1] = ExitChoice
       THEN [students |-> sts, out |-> choice.out \o <<Msg("Exiting program.")>>]
       ELSE After_All(choice.out, menu_actions(choice.val[1]))

\* The loop of main, one pass at a time.
main(keys) ==
    /\ Running
    /\ \E did \in {main_pass(students, keys)} :
          /\ Len(did.students) <= MaxStudents
          /\ \A i \in DOMAIN did.students : Len(did.students[i].grades) <= MaxGrades
          /\ students' = did.students
          /\ printed' = did.out

\* The grade analyzer runs apart from the book collection.
NoRequests == UNCHANGED <<books, now, last, calls>>

\* The lines of every key sequence of length 1 or 2 over a set of lines.
UpToTwo(lines) == {<<k>> : k \in lines} \cup {<<k1, k2>> : k1 \in lines, k2 \in lines}

\* Choice 1 followed by names: new, taken in another letter case, padded,
\* empty, interrupted.
AddStudentKeys ==
    {<<Line(<<"1">>)>> \o ks :
        ks \in {<<Line(<<"a">>)>>, <<Line(<<" ", "A", " ">>)>>, <<Line(<<"b">>)>>,
                <<Interrupt>>, <<Line(<<" ">>), Line(<<"a">>)>>,
                <<Line(<<"a">>), Line(<<"A">>)>>, <<Line(<<"A">>), Line(<<"b">>)>>,
                <<Line(<<"B">>), Interrupt>>, <<Line(<<>>), Interrupt>>}}

\* Choice 2 followed by a name and grade lines.
AddGradesKeys ==
    {<<Line(<<"2">>), n>> \o gs :
        n \in {Line(<<"A">>), Line(<<"b">>)},
        gs \in {<<>>} \cup UpToTwo({Line(<<"0">>), Line(<<"1", "0", "0">>)})
               \cup {<<Line(<<"1", "0", "1">>), Line(<<"0">>)>>,
                     <<Line(<<"x">>), Line(<<>>), Line(<<"0">>)>>,
                     <<Line(<<"0">>), Line(<<"D", "O", "N", "E">>), Line(<<"0">>)>>,
                     <<Line(<<"-", "1">>), Interrupt>>}}
    \cup {<<Line(<<"2">>), Line(<<"c">>)>>, <<Line(<<"2">>), Line(<<" ">>)>>,
          <<Line(<<"2">>), Interrupt>>}

ReportKeys ==
    {<<Line(<<"3">>)>>, <<Line(<<>>), Line(<<" ", "3">>)>>, <<Line(<<"x">>), Line(<<"+", "3">>)>>}

TopKeys ==
    {<<Line(<<"4">>)>>, <<Line(<<"6">>), Line(<<"0", "4">>)>>, <<Line(<<"0">>), Line(<<"4">>)>>}

ExitKeys == {<<Line(<<"5">>)>>}

NoChoiceKeys == {<<Interrupt>>, <<Line(<<"-", "1">>), Interrupt>>}

NextGrades ==
    \/ \E keys \in AddStudentKeys : main(keys) /\ NoRequests
    \/ \E keys \in AddGradesKeys : main(keys) /\ NoRequests
    \/ \E keys \in ReportKeys : main(keys) /\ NoRequests
    \/ \E keys \in TopKeys : main(keys) /\ NoRequests
    \/ \E keys \in ExitKeys : main(keys) /\ NoRequests
    \/ \E keys \in NoChoiceKeys : main(keys) /\ NoRequests

SpecGrades == Init /\ [][NextGrades]_vars

(* ------------------------------- claims -------------------------------- *)

\* Equal ignoring letter case.
CIEq(s, t) == Lower(s) = Lower(t)

\* Two request bodies differ at most in the letter case of title and author.
SamePairAnyCase(r1, r2) ==
    /\ r1.year = r2.year
    /\ r1.title.val # None /\ r2.title.val # None
    /\ r1.author.val # None /\ r2.author.val # None
    /\ CIEq(r1.title.val[1], r2.title.val[1])
    /\ CIEq(r1.author.val[1], r2.author.val[1])

\* The rows holding the pair a create request names (as stored: stripped).
RowsOfPair(bs, req) ==
    {b \in bs : /\ CIEq(b.title, Strip(req.title.val[1]))
                /\ CIEq(b.author, Strip(req.author.val[1]))}

\* C1: when a Create has succeeded and the next call is a Create of the same
\* (title, author) pair in any letter casing, that call answers 409, adds no
\* row, and the table holds exactly one row for the pair.
C1_DuplicateCreateRejected ==
    [][(/\ last.op = "create" /\ last.status = HTTP_201_CREATED
        /\ last'.op = "create"
        /\ SamePairAnyCase(last.req, last'.req))
       => (/\ last'.status = HTTP_409_CONFLICT
           /\ books' = books
           /\ Cardinality(RowsOfPair(books', last'.req)) = 1)]_vars

\* C1 witness: a Create was answered 409 for a pair stored in another casing.
C1_Witness ==
    /\ last.op = "create" /\ last.status = HTTP_409_CONFLICT
    /\ Cardinality(RowsOfPair(books, last.req)) = 1
    /\ \E b \in RowsOfPair(books, last.req) : b.title # Strip(last.req.title.val[1])

\* C2 (as claimed): no two live rows have case-insensitively equal title and
\* case-insensitively equal author.
C2_NoDuplicatePairs ==
    \A b1 \in books : \A b2 \in books :
        (b1 # b2) => ~(CIEq(b1.title, b2.title) /\ CIEq(b1.author, b2.author))

\* The row with the given id.
TheBook(bs, id) == CHOOSE b \in bs : b.id = id

\* Column f holds the value v a request carried (None is a JSON null; the
\* title and author columns are NOT NULL and never hold one).
HoldsValue(f, col, v) ==
    IF v = None THEN f = "year" /\ col = None
    ELSE col = (IF f = "year" THEN v ELSE v[1])

\* A step in which update_book answered 200.
UpdateStep == last'.op = "update" /\ last'.status = HTTP_200_OK /\ now' = now

\* C3 (as claimed): a successful Update sets every supplied field to the
\* supplied value, sets updated_at, keeps every field not supplied, and
\* changes no other row.
C3_UpdateSetsSuppliedFields ==
    [][UpdateStep =>
        LET old == TheBook(books, last'.id)
            new == TheBook(books', last'.id)
            req == last'.req
        IN /\ \A f \in Fields :
                IF req[f].set THEN HoldsValue(f, new[f], req[f].val)
                ELSE new[f] = old[f]
           /\ new.updated_at = Some(now)
           /\ new.id = old.id /\ new.created_at = old.created_at
           /\ books' \ {new} = books \ {old}]_vars

\* C3 (amended): a successful Update sets every field supplied with a
\* non-null value to that value and keeps every field that is absent or null;
\* updated_at becomes the current time when some field changed its value and
\* keeps its value otherwise; id, created_at and every other row are unchanged.
C3_PartialUpdate ==
    [][UpdateStep =>
        LET old == TheBook(books, last'.id)
            new == TheBook(books', last'.id)
            req == last'.req
        IN /\ \A f \in Fields :
                IF req[f].val # None THEN HoldsValue(f, new[f], req[f].val)
                ELSE new[f] = old[f]
           /\ new.updated_at =
                IF \E f \in Fields : new[f] # old[f] THEN Some(now) ELSE old.updated_at
           /\ new.id = old.id /\ new.created_at = old.created_at
           /\ books' \ {new} = books \ {old}]_vars

\* C3 witness: an Update of the year alone, after the row's creation tick,
\* next to another row.
C3_Witness ==
    /\ last.op = "update" /\ last.status = HTTP_200_OK
    /\ last.req.year.val # None /\ ~last.req.title.set /\ ~last.req.author.set
    /\ last.out[1] \in books
    /\ last.out[1].year = last.req.year.val
    /\ last.out[1].updated_at = Some(now)
    /\ last.out[1].created_at # Some(now)
    /\ Cardinality(books) = 2

\* C4 (as claimed): Get, Update and Delete of an id no live row has answer
\* 404 and leave the table as it was.
C4_UnknownIdAlways404 ==
    [][(/\ last'.op \in {"get", "update", "delete"}
        /\ last'.id \notin Ids(books))
       => (last'.status = HTTP_404_NOT_FOUND /\ books' = books)]_vars

\* C4 (amended): Get and Delete of an id no live row has, and Update of such
\* an id with a body that passes validation, answer 404 and leave the table
\* as it was; an Update whose body fails validation answers 422, whatever
\* the id, and leaves the table as it was.
C4_UnknownIdNotFound ==
    [][(/\ last'.op \in {"get", "update", "delete"}
        /\ last'.id \notin Ids(books))
       => (/\ books' = books
           /\ last'.status =
                IF last'.op = "update" /\ ~BookUpdateValid(last'.req)
                THEN HTTP_422_UNPROCESSABLE_ENTITY
                ELSE HTTP_404_NOT_FOUND)]_vars

\* C4 witness: an Update with an accepted body was answered 404 while the
\* table held rows.
C4_Witness ==
    /\ last.op = "update" /\ last.status = HTTP_404_NOT_FOUND
    /\ last.req.title.val # None
    /\ last.id \notin Ids(books)
    /\ books # {}

\* A request field that is absent, null, or empty once stripped.
Blank(field) == field.val = None \/ Strip(field.val[1]) = <<>>

\* C5 (as claimed): a Create whose title or author is absent, or empty after
\* stripping, answers 422 and creates no row.
C5_BlankRejected ==
    [][(/\ last'.op = "create"
        /\ (Blank(last'.req.title) \/ Blank(last'.req.author)))
       => (last'.status = HTTP_422_UNPROCESSABLE_ENTITY /\ books' = books)]_vars

\* C6 (as claimed): every live row has a title of length 1 to 200 and an
\* author of length 1 to 100 without leading or trailing whitespace, and a
\* year that is absent or within [1000, current year].
C6_StoredFieldsValid ==
    \A b \in books :
        /\ Len(b.title) >= 1 /\ Len(b.title) <= TitleMaxLength
        /\ Strip(b.title) = b.title
        /\ Len(b.author) >= 1 /\ Len(b.author) <= AuthorMaxLength
        /\ Strip(b.author) = b.author
        /\ (b.year = None \/ YearConstraint(b.year[1]))

\* The elements of a sequence.
Range(q) == {q[i] : i \in 1..Len(q)}

\* The parameters of a list or search call are within their declared ranges.
ParamsValid(op, q) == PageParamsValid(q) /\ (op = "search" => FilterParamsValid(q))

\* o is the full result of the call: exactly the rows that pass the filters,
\* each once, in the order of the sort field.
IsFullResult(o, bs, q) ==
    /\ Range(o) = apply_filters(bs, q.title, q.author, q.year)
    /\ Len(o) = Cardinality(Range(o))
    /\ \A i \in 1..(Len(o) - 1) :
          IF IsDesc(q.sort_order)
          THEN ~ColLess(SortField(q.sort_by), o[i], o[i + 1])
          ELSE ~ColLess(SortField(q.sort_by), o[i + 1], o[i])

\* C7: the page List/Search return is the contiguous slice of the full
\* filtered and sorted result that starts at position skip and has at most
\* limit rows (all that remain when fewer do), in the same order.
C7_PageIsSlice ==
    (last.op \in {"list", "search"} /\ last.status = HTTP_200_OK) =>
        LET q == last.req
            o == last.out[1].ordered
            p == last.out[1].rows
            rest == IF Len(o) > q.skip THEN Len(o) - q.skip ELSE 0
        IN /\ q.skip >= 0 /\ q.limit >= 1 /\ q.limit <= LimitMax
           /\ IsFullResult(o, books, q)
           /\ Len(p) = (IF q.limit < rest THEN q.limit ELSE rest)
           /\ \A i \in 1..Len(p) : p[i] = o[q.skip + i]

\* C7 witness: a filtered search returned the second of two matching rows.
C7_Witness ==
    /\ last.op = "search" /\ last.status = HTTP_200_OK
    /\ last.req.title # None
    /\ last.req.skip = 1 /\ last.req.limit = 1
    /\ Len(last.out[1].ordered) = 2
    /\ last.out[1].rows = <<last.out[1].ordered[2]>>

\* The pages a call may return (one for each order the database may use).
RowsFor(bs, q) ==
    {Page(o, q).rows :
        o \in OrderBy(apply_filters(bs, q.title, q.author, q.year),
                      SortField(q.sort_by), IsDesc(q.sort_order))}

\* C8: a List/Search call whose sort_by is none of id, title, author, year
\* (its other parameters within their ranges) answers 200 with the very
\* sequence the same call with sort_by = "id" returns.
C8_UnknownSortByIsId ==
    (/\ last.op \in {"list", "search"}
     /\ last.req.sort_by \notin {"id", "title", "author", "year"}
     /\ ParamsValid(last.op, last.req))
    => (/\ last.status = HTTP_200_OK
        /\ RowsFor(books, [last.req EXCEPT !.sort_by = "id"]) = {last.out[1].rows})

\* C8 witness: a list call with an unknown sort_by returned two rows in id
\* order although their titles sort the other way.
C8_Witness ==
    /\ last.op = "list" /\ last.status = HTTP_200_OK
    /\ last.req.sort_by \notin {"id", "title", "author", "year"}
    /\ Len(last.out[1].rows) = 2
    /\ last.out[1].rows[1].id < last.out[1].rows[2].id
    /\ StrLess(last.out[1].rows[2].title, last.out[1].rows[1].title)

\* t occurs in s as a substring.
Contains(s, t) ==
    \E i \in 0..(Len(s) - Len(t)) : SubSeq(s, i + 1, i + Len(t)) = t

\* Row b satisfies every supplied filter of q.
Satisfies(b, q) ==
    /\ (q.title = None \/ Contains(Lower(b.title), Lower(q.title[1])))
    /\ (q.author = None \/ Contains(Lower(b.author), Lower(q.author[1])))
    /\ (q.year = None \/ b.year = q.year)

\* C9 (as claimed): Search answers 200 and its full result holds exactly the
\* live rows whose title contains the title term and whose author contains
\* the author term, ignoring case, and whose year equals the year term; a
\* filter that is not supplied excludes nothing.
C9_SearchMatchesFilters ==
    (last.op = "search" /\ ParamsValid("search", last.req)) =>
        /\ last.status = HTTP_200_OK
        /\ Range(last.out[1].ordered) = {b \in books : Satisfies(b, last.req)}

\* C10: Stats reports the number of live rows, a count for every year some
\* row holds (and no entry for rows without a year), and the counted years
\* in ascending order without repetition.
C10_Stats ==
    (last.op = "stats") =>
        LET st == last.out[1]
            years == {b.year[1] : b \in {x \in books : x.year # None}}
        IN /\ last.status = HTTP_200_OK
           /\ st.total_books = Cardinality(books)
           /\ DOMAIN st.books_by_year = years
           /\ \A y \in years :
                 st.books_by_year[y] = Cardinality({b \in books : b.year = Some(y)})
           /\ Range(st.years_covered) = years
           /\ \A i \in 1..(Len(st.years_covered) - 1) :
                 st.years_covered[i] < st.years_covered[i + 1]

\* C10 witness: Stats over two rows, one of them without a year.
C10_Witness ==
    /\ last.op = "stats"
    /\ \E b \in books : b.year = None
    /\ last.out[1].total_books = 2
    /\ Len(last.out[1].years_covered) = 1

\* C11: Delete of a live id answers 204 and removes exactly that row: every
\* other row stays as it was, no List call returns the removed row, and a Get
\* of the id that follows the Delete answers 404.
C11_DeleteRemovesExactlyThatRow ==
    [][/\ (last'.op = "delete" /\ last'.id \in Ids(books)) =>
            LET gone == TheBook(books, last'.id) IN
            /\ last'.status = HTTP_204_NO_CONTENT
            /\ books' = books \ {gone}
            /\ last'.id \notin Ids(books')
            /\ \A sort_by \in SortBys : \A sort_order \in {asc, desc} :
                  \A page \in RowsFor(books', Query(None, None, None, 0, LimitMax,
                                                    sort_by, sort_order)) :
                      \A i \in 1..Len(page) : page[i].id # last'.id
       /\ (/\ last.op = "delete" /\ last.status = HTTP_204_NO_CONTENT
           /\ last'.op = "get" /\ last'.id = last.id)
          => last'.status = HTTP_404_NOT_FOUND]_vars

\* C11 witness: the row with the smaller id was deleted and the other row is
\* still there.
C11_Witness ==
    /\ last.op = "delete" /\ last.status = HTTP_204_NO_CONTENT
    /\ \E b \in books : b.id > last.id

\* The rows other than id that hold the title and the author a request names.
HoldersOfPair(bs, id, req) ==
    {b \in bs : /\ b.id # id
                /\ req.title.val # None /\ b.title = req.title.val[1]
                /\ req.author.val # None /\ b.author = req.author.val[1]}

\* C13: an Update of a live row that sets its title and author to the pair
\* another live row holds is never answered 409: it answers 200 with the
\* updated row, which then holds that pair next to the other row.
C13_UpdateToHeldPairSucceeds ==
    [][(/\ last'.op = "update"
        /\ last'.id \in Ids(books)
        /\ BookUpdateValid(last'.req)
        /\ HoldersOfPair(books, last'.id, last'.req) # {})
       => (/\ last'.status = HTTP_200_OK
           /\ last'.out # None
           /\ last'.out[1] = TheBook(books', last'.id)
           /\ last'.out[1].title = last'.req.title.val[1]
           /\ last'.out[1].author = last'.req.author.val[1]
           /\ HoldersOfPair(books', last'.id, last'.req)
                = HoldersOfPair(books, last'.id, last'.req))]_vars

\* C13 witness: an Update answered 200 and left two rows with the same title
\* and the same author, the updated row having held another pair before.
C13_Witness ==
    /\ last.op = "update" /\ last.status = HTTP_200_OK
    /\ HoldersOfPair(books, last.id, last.req) # {}
    /\ last.out[1] \in books
    /\ last.out[1].updated_at # None

\* The body with every field that carries null taken out.
WithoutNulls(req) == [f \in Fields |-> IF req[f].val = None THEN Unset ELSE req[f]]

\* C16: an Update answers a body with a null field as it answers the body
\* without that field: the row keeps the stored value of the field, the table
\* is the one the body without the field leaves, and no Update step changes a
\* year that is present into an absent one.
C16_NullFieldIsIgnored ==
    [][(last'.op = "update" /\ now' = now) =>
        IF last'.status # HTTP_200_OK THEN books' = books
        ELSE \E old \in get_book_or_404(books, last'.id) :
             \E new \in get_book_or_404(books', last'.id) :
                /\ \A f \in Fields : (last'.req[f] = Null) => new[f] = old[f]
                /\ (old.year # None) => (new.year # None)
                /\ \E update_data \in {BookUpdateDump(WithoutNulls(last'.req))} :
                      new = Flush(old, ApplyUpdate(old, update_data), now)
                /\ last'.out = Some(new)
                /\ books' \ {new} = books \ {old}]_vars

\* C16 witness: an Update whose body carried "year": null and a new title
\* changed the title of a row and left its year in place.
C16_Witness ==
    /\ last.op = "update" /\ last.status = HTTP_200_OK
    /\ last.req.year = Null /\ last.req.title.val # None
    /\ last.out[1] \in books
    /\ last.out[1].year # None
    /\ last.out[1].title = last.req.title.val[1]
    /\ last.out[1].updated_at # None

\* The rows of o come in descending (down) or ascending order of column f.
InOrder(o, f, down) ==
    \A i \in 1..(Len(o) - 1) :
        IF down THEN ~ColLess(f, o[i], o[i + 1]) ELSE ~ColLess(f, o[i + 1], o[i])

\* C14: a List/Search call with parameters in their ranges answers 200
\* whatever its sort_order; its rows are in descending order of the sort
\* field when sort_order equals "desc" ignoring case, and in ascending order
\* of the sort field for every other sort_order.
C14_SortOrder ==
    (last.op \in {"list", "search"} /\ ParamsValid(last.op, last.req)) =>
        LET q == last.req
            down == CIEq(q.sort_order, desc)
        IN /\ last.status = HTTP_200_OK
           /\ InOrder(last.out[1].ordered, SortField(q.sort_by), down)
           /\ InOrder(last.out[1].rows, SortField(q.sort_by), down)

\* C14 witness: a list call with sort_order "DESC" returned two rows with
\* the greater title first.
C14_Witness ==
    /\ last.op = "list" /\ last.status = HTTP_200_OK
    /\ last.req.sort_order = <<"D", "E", "S", "C">>
    /\ last.req.sort_by = "title"
    /\ Len(last.out[1].rows) = 2
    /\ StrLess(last.out[1].rows[2].title, last.out[1].rows[1].title)

\* The rows whose title and author equal, ignoring case, those of the data.
SameIgnoringCase(bs, data) ==
    {b \in bs : CIEq(b.title, data.title) /\ CIEq(b.author, data.author)}

\* C15 (as claimed): a Create with valid fields is answered 409 only when
\* some live row has a title and an author equal, ignoring case, to the
\* request's; when no such row exists, also for a title or author with % or
\* _, it answers 201 and adds the returned row under an id no row had.
C15_DuplicateOnlyIfEqual ==
    [][(last'.op = "create" /\ BookCreateValid(last'.req)) =>
        LET data == BookCreateDump(last'.req) IN
        /\ (last'.status = HTTP_409_CONFLICT) => SameIgnoringCase(books, data) # {}
        /\ (SameIgnoringCase(books, data) = {}) =>
              /\ last'.status = HTTP_201_CREATED
              /\ last'.out # None
              /\ last'.out[1].id \notin Ids(books)
              /\ last'.out[1].title = data.title
              /\ last'.out[1].author = data.author
              /\ books' = books \cup {last'.out[1]}]_vars

\* The requests of callers c and d name the same pair, ignoring case.
SamePairInFlight(cs, c, d) ==
    /\ BookCreateValid(cs[c].req) /\ BookCreateValid(cs[d].req)
    /\ CIEq(BookCreateDump(cs[c].req).title, BookCreateDump(cs[d].req).title)
    /\ CIEq(BookCreateDump(cs[c].req).author, BookCreateDump(cs[d].req).author)

\* Callers c and d were both answered 201 for the same pair.
BothCreated(cs, c, d) ==
    /\ c # d
    /\ cs[c].pc = "done" /\ cs[c].status = HTTP_201_CREATED
    /\ cs[d].pc = "done" /\ cs[d].status = HTTP_201_CREATED
    /\ SamePairInFlight(cs, c, d)

\* C12: the duplicate query and the insert of a Create are separate steps
\* on the table, and the insert step runs no second check: a request whose
\* query found no row is answered 201 and adds its row, whatever was
\* inserted since the query. Two concurrent requests for the same pair that
\* were both answered 201 leave two rows holding that pair.
C12_CheckThenInsertRace ==
    [][/\ \A c \in Callers :
            (calls[c].pc = "commit" /\ calls'[c].pc = "done") =>
                LET data == BookCreateDump(calls[c].req) IN
                /\ calls'[c].status = HTTP_201_CREATED
                /\ calls'[c].out # None
                /\ calls'[c].out[1].id \notin Ids(books)
                /\ calls'[c].out[1].title = data.title
                /\ calls'[c].out[1].author = data.author
                /\ books' = books \cup {calls'[c].out[1]}
       /\ \A c \in Callers : \A d \in Callers :
            BothCreated(calls', c, d) =>
                /\ calls'[c].out[1] \in books' /\ calls'[d].out[1] \in books'
                /\ calls'[c].out[1].id # calls'[d].out[1].id
                /\ CIEq(calls'[c].out[1].title, calls'[d].out[1].title)
                /\ CIEq(calls'[c].out[1].author, calls'[d].out[1].author)]_vars

\* C12 witness: both callers sent the same title and author, both were
\* answered 201, and the table holds two rows with that title and author.
C12_Witness ==
    \E c \in Callers : \E d \in Callers :
        /\ BothCreated(calls, c, d)
        /\ calls[c].req = calls[d].req
        /\ {calls[c].out[1], calls[d].out[1]} \subseteq books
        /\ calls[c].out[1].id # calls[d].out[1].id
        /\ calls[c].out[1].title = calls[d].out[1].title
        /\ calls[c].out[1].author = calls[d].out[1].author

\* No two students of the list have names equal ignoring case, and no name
\* is empty.
NamesDistinctAndPresent(sts) ==
    /\ \A i \in DOMAIN sts : \A j \in DOMAIN sts :
          (i # j) => ~CIEq(sts[i].name, sts[j].name)
    /\ \A i \in DOMAIN sts : sts[i].name # <<>>

\* Every student of the list before is at the same place, under the same
\* name, in the list after.
NoneRemoved(before, after) ==
    /\ Len(after) >= Len(before)
    /\ \A i \in DOMAIN before : after[i].name = before[i].name

\* C17: after every pass of the menu loop of the grade analyzer (add
\* student, add grades, report, top student, exit, no choice) no two
\* students have names equal ignoring case, every name is non-empty, and
\* every student the list held before the pass is still in it.
C17_StudentNames ==
    [][NamesDistinctAndPresent(students') /\ NoneRemoved(students, students')]_vars

\* C17 witness: with a student in the list, a pass refused that student's
\* name typed in another letter case and added the next name typed; some
\* student has grades.
C17_Witness ==
    /\ Len(students) = 2
    /\ \E i \in DOMAIN students : students[i].grades # <<>>
    /\ printed[1].text = "Student with this name already exists"
    /\ printed[Len(printed)].text = "Student added successfully"
    /\ printed[Len(printed)].name = students[2].name

====
